---- MODULE Spec2Model ----
(***************************************************************************)
(* Model of src/bouncy.cc: the bouncing, mirror-ball demo.                 *)
(*                                                                         *)
(* The state is the list of Ball objects (std::list<Ball>), the static     *)
(* free list Ball::recycled_ball_render, the two globals paused and        *)
(* do_one_tick, the part of the OpenGL context the program drives (the     *)
(* framebuffer attachments, the bound framebuffer, the depth mask) and the *)
(* position of Main in its loops.  One action is one iteration of a loop   *)
(* body of Main, in the order Main runs them.                              *)
(*                                                                         *)
(* Numbers.  Lengths and velocities are integers counting 1/10000 of the   *)
(* program's unit, so ball_radius = 0.1f is 1000 and max_y = 2.0f is       *)
(* 20000.  The step dt = 0.01f is 1/dt_den.  Velocities are kept multiples *)
(* of dt_den, so that every product with dt is exact.  The arithmetic of   *)
(* the model is therefore that of the reals; the rounding of IEEE floats   *)
(* is not modelled.  The colour of a ball takes no part in any operation   *)
(* modelled here and is left out.                                          *)
(***************************************************************************)
EXTENDS Integers, Sequences, FiniteSets

\* ------------------------------------------------------------------ bounds

\* Number of balls Main creates (ball_count is 25 in the program).
NumBalls == 3
\* Number of iterations of Main's while loop that are explored.
MaxFrames == 2
\* Longest queue of key events one call of handle_controls polls.
MaxEvents == 2
MaxPoolOps == 5

\* ------------------------------------------------------- program constants

ball_radius == 1000
min_x == -8000
max_x == 8000
min_y == 0
max_y == 20000
min_z == -8000
max_z == 8000
gravity == 40000
\* Main calls tick(0.01f): dt = 1 / dt_den.
dt_den == 100

plus_x_index == 0
minus_x_index == 1
plus_y_index == 2
minus_y_index == 3
plus_z_index == 4
minus_z_index == 5

\* cubemap_face_enums[i]: the cubemap face that index i names.
cubemap_face_enums ==
    [i \in 0..5 |->
        CASE i = 0 -> "POSITIVE_X"
          [] i = 1 -> "NEGATIVE_X"
          [] i = 2 -> "POSITIVE_Y"
          [] i = 3 -> "NEGATIVE_Y"
          [] i = 4 -> "POSITIVE_Z"
          [] i = 5 -> "NEGATIVE_Z"]

\* ----------------------------------------------------------------- vectors

vsub(a, b) == <<a[1] - b[1], a[2] - b[2], a[3] - b[3]>>
vadd(a, b) == <<a[1] + b[1], a[2] + b[2], a[3] + b[3]>>
dot(a, b) == a[1] * b[1] + a[2] * b[2] + a[3] * b[3]
\* v * dt, exact because every velocity component is a multiple of dt_den.
vscale_dt(v) == <<v[1] \div dt_den, v[2] \div dt_den, v[3] \div dt_den>>

\* ------------------------------------------------------------ Ball physics

\* Mutant of bounce_ball_hits: the collision-course test is left out.
bounce_ball_hits_overlap_only(a, b) ==
    LET displacement == vsub(b.position, a.position)
        squared_distance == dot(displacement, displacement)
        squared_radii == (a.radius + b.radius) * (a.radius + b.radius)
    IN  squared_distance < squared_radii

\* Mutant of bounce_ball_hits: the distance is compared with the caller's
\* radius alone instead of the sum of the two radii.
bounce_ball_hits_one_radius(a, b) ==
    LET displacement == vsub(b.position, a.position)
        squared_distance == dot(displacement, displacement)
        squared_radii == a.radius * a.radius
        collision_course == dot(displacement, vsub(a.velocity, b.velocity)) > 0
    IN  collision_course /\ squared_distance < squared_radii

\* The condition of bounce_ball on two balls a (the caller) and b (other).
bounce_ball_hits(a, b) ==
    LET displacement == vsub(b.position, a.position)
        squared_distance == dot(displacement, displacement)
        squared_radii == (a.radius + b.radius) * (a.radius + b.radius)
        collision_course == dot(displacement, vsub(a.velocity, b.velocity)) > 0
    IN  collision_course /\ squared_distance < squared_radii

\* Mutant of bounce_ball: the swap is written as two assignments, so both
\* balls end with the velocity of other.
bounce_ball_overwrite(l, i, j) ==
    IF bounce_ball_hits(l[i], l[j])
    THEN [list |-> [l EXCEPT ![i].velocity = l[j].velocity, ![i].bounced = TRUE,
                             ![j].bounced = TRUE],
          ret |-> TRUE]
    ELSE [list |-> l, ret |-> FALSE]

\* Mutant of bounce_ball: the bounced flags are not set on a hit.
bounce_ball_keeps_flags(l, i, j) ==
    IF bounce_ball_hits(l[i], l[j])
    THEN [list |-> [l EXCEPT ![i].velocity = l[j].velocity,
                             ![j].velocity = l[i].velocity],
          ret |-> TRUE]
    ELSE [list |-> l, ret |-> FALSE]

\* Ball::bounce_ball called on l[i] with other = l[j]: the list afterwards
\* and the value returned.
bounce_ball(l, i, j) ==
    IF bounce_ball_hits(l[i], l[j])
    THEN [list |-> [l EXCEPT ![i].velocity = l[j].velocity, ![i].bounced = TRUE,
                             ![j].velocity = l[i].velocity, ![j].bounced = TRUE],
          ret |-> TRUE]
    ELSE [list |-> l, ret |-> FALSE]

\* Mutant of bounce_max: the velocity is negated but the position is not
\* clamped.
bounce_max_unclamped(s, axis, max, name) ==
    IF s.ball.position[axis] + s.ball.radius > max /\ s.ball.velocity[axis] > 0
    THEN [ball |-> [s.ball EXCEPT !.velocity[axis] = -1 * @],
          flag |-> TRUE,
          hits |-> s.hits \cup {name}]
    ELSE s

\* One "if" of bounce_bounds against a maximum.  s carries the ball, the
\* local flag and (a record of the branches taken) the boundaries hit.
bounce_max(s, axis, max, name) ==
    IF s.ball.position[axis] + s.ball.radius > max /\ s.ball.velocity[axis] > 0
    THEN [ball |-> [s.ball EXCEPT !.velocity[axis] = -1 * @,
                                  !.position[axis] = max - s.ball.radius],
          flag |-> TRUE,
          hits |-> s.hits \cup {name}]
    ELSE s

\* Mutant of bounce_min: the direction of the velocity is not tested.
bounce_min_any_direction(s, axis, min, name) ==
    IF s.ball.position[axis] - s.ball.radius < min
    THEN [ball |-> [s.ball EXCEPT !.velocity[axis] = -1 * @,
                                  !.position[axis] = min + s.ball.radius],
          flag |-> TRUE,
          hits |-> s.hits \cup {name}]
    ELSE s

\* One "if" of bounce_bounds against a minimum.
bounce_min(s, axis, min, name) ==
    IF s.ball.position[axis] - s.ball.radius < min /\ s.ball.velocity[axis] < 0
    THEN [ball |-> [s.ball EXCEPT !.velocity[axis] = -1 * @,
                                  !.position[axis] = min + s.ball.radius],
          flag |-> TRUE,
          hits |-> s.hits \cup {name}]
    ELSE s

\* Ball::bounce_bounds: the six tests in the order of the source, then
\* bounced |= flag.  The result holds the ball, the returned flag and the
\* boundaries whose branch was taken.
bounce_bounds(ball) ==
    LET s0 == [ball |-> ball, flag |-> FALSE, hits |-> {}]
        s1 == bounce_max(s0, 1, max_x, "max_x")
        s2 == bounce_max(s1, 2, max_y, "max_y")
        s3 == bounce_max(s2, 3, max_z, "max_z")
        s4 == bounce_min(s3, 1, min_x, "min_x")
        s5 == bounce_min(s4, 2, min_y, "min_y")
        s6 == bounce_min(s5, 3, min_z, "min_z")
    IN  [ball |-> [s6.ball EXCEPT !.bounced = @ \/ s6.flag],
         flag |-> s6.flag,
         hits |-> s6.hits]

\* Mutant of reset_bounce_flag: the flag is left as it is.
reset_bounce_flag_noop(ball) == ball

\* Mutant of reset_bounce_flag: the velocity is cleared with the flag.
reset_bounce_flag_and_velocity(ball) ==
    [ball EXCEPT !.bounced = FALSE, !.velocity = <<0, 0, 0>>]

\* Ball::reset_bounce_flag.
reset_bounce_flag(ball) == [ball EXCEPT !.bounced = FALSE]

\* Mutant of tick: the position advances by the velocity before gravity.
tick_position_first(ball) ==
    LET v == vsub(ball.velocity, <<0, gravity \div dt_den, 0>>)
    IN  [ball EXCEPT !.velocity = v,
                     !.position = vadd(ball.position, vscale_dt(ball.velocity))]

\* Ball::tick(dt): velocity first, then position with the new velocity.
tick(ball) ==
    LET v == vsub(ball.velocity, <<0, gravity \div dt_den, 0>>)
    IN  [ball EXCEPT !.velocity = v, !.position = vadd(ball.position, vscale_dt(v))]

\* Mutant of pair_guard: the bounced flags are not consulted.
pair_guard_unflagged(l, i, j) == i # j

\* The guard of the innermost statement of the pairwise loops of Main.
pair_guard(l, i, j) == i # j /\ ~l[i].bounced /\ ~l[j].bounced

\* ------------------------------------------------- render bundles, drawing

\* The else-branch of Ball::Ball: six new framebuffer names and one new
\* cubemap name; framebuffers[i] gets face cubemap_face_enums[i] of that
\* cubemap as its colour attachment.  fbc is the attachment table of the
\* context, indexed by framebuffer name; names are handed out in order.
new_ball_render(fbc) ==
    LET base == Len(fbc)
        cm == base \div 6 + 1
    IN  [render |-> [framebuffers |-> [i \in 0..5 |-> base + 1 + i], cubemap |-> cm],
         fb_color |-> fbc \o [k \in 1..6 |->
                                [cubemap |-> cm, face |-> cubemap_face_enums[k - 1]]]]

\* Ball::Ball without the pop_back: the bundle taken stays in the free list.
Ball_ctor_no_pop(pos_arg, vel_arg, radius_arg, id, recycled, fbc) ==
    LET fresh == new_ball_render(fbc)
        reuse == recycled # <<>>
        render == IF reuse THEN recycled[Len(recycled)] ELSE fresh.render
    IN  [ball |-> [position |-> pos_arg, velocity |-> vel_arg, radius |-> radius_arg,
                   bounced |-> FALSE, id |-> id, render |-> render],
         recycled |-> recycled,
         fb_color |-> IF reuse THEN fbc ELSE fresh.fb_color]

\* Ball::Ball taking the else branch always: a fresh bundle for every ball.
Ball_ctor_always_fresh(pos_arg, vel_arg, radius_arg, id, recycled, fbc) ==
    LET fresh == new_ball_render(fbc)
    IN  [ball |-> [position |-> pos_arg, velocity |-> vel_arg, radius |-> radius_arg,
                   bounced |-> FALSE, id |-> id, render |-> fresh.render],
         recycled |-> recycled,
         fb_color |-> fresh.fb_color]

\* Ball::Ball: the fields, then a bundle from recycled_ball_render if there
\* is one (back, pop_back) and a fresh one otherwise.
Ball_ctor(pos_arg, vel_arg, radius_arg, id, recycled, fbc) ==
    LET fresh == new_ball_render(fbc)
        reuse == recycled # <<>>
        render == IF reuse THEN recycled[Len(recycled)] ELSE fresh.render
    IN  [ball |-> [position |-> pos_arg, velocity |-> vel_arg, radius |-> radius_arg,
                   bounced |-> FALSE, id |-> id, render |-> render],
         recycled |-> IF reuse THEN SubSeq(recycled, 1, Len(recycled) - 1) ELSE recycled,
         fb_color |-> IF reuse THEN fbc ELSE fresh.fb_color]

\* Ball::~Ball: the bundle goes back onto recycled_ball_render (push_back);
\* nothing is handed back to GL.
Ball_dtor(ball, recycled) == Append(recycled, ball.render)

\* The balls a loop "for (ball : list) { if (&ball == skip) continue; ... }"
\* reaches, in list order.  skip is the id of the skipped ball, 0 for nullptr.
not_skipped(l, skip) ==
    SelectSeq([k \in 1..Len(l) |-> k], LAMBDA k : l[k].id # skip)

\* Mutant of draw_list: the rim pass does not skip the capturing ball.
draw_list_rim_unskipped(l, skip, mask) ==
    LET idx == not_skipped(l, skip)
        opaque == [m \in 1..Len(idx) |->
                     [op |-> "opaque", ball |-> l[idx[m]].id,
                      cubemap |-> l[idx[m]].render.cubemap, depth_write |-> mask]]
        rim == [m \in 1..Len(l) |->
                  [op |-> "rim", ball |-> l[m].id,
                   cubemap |-> 0, depth_write |-> FALSE]]
    IN  [cmds |-> opaque \o rim, depth_mask |-> TRUE]

\* Mutant of draw_list: the closing glDepthMask(GL_TRUE) is missing.
draw_list_mask_left_off(l, skip, mask) ==
    LET idx == not_skipped(l, skip)
        opaque == [m \in 1..Len(idx) |->
                     [op |-> "opaque", ball |-> l[idx[m]].id,
                      cubemap |-> l[idx[m]].render.cubemap, depth_write |-> mask]]
        rim == [m \in 1..Len(idx) |->
                  [op |-> "rim", ball |-> l[idx[m]].id,
                   cubemap |-> 0, depth_write |-> FALSE]]
    IN  [cmds |-> opaque \o rim, depth_mask |-> FALSE]

\* Ball::draw_list: the draw calls it issues, in order, each with the depth
\* mask in force: the reflective pass, glDepthMask(GL_FALSE), the rim pass,
\* glDepthMask(GL_TRUE).
draw_list(l, skip, mask) ==
    LET idx == not_skipped(l, skip)
        opaque == [m \in 1..Len(idx) |->
                     [op |-> "opaque", ball |-> l[idx[m]].id,
                      cubemap |-> l[idx[m]].render.cubemap, depth_write |-> mask]]
        rim == [m \in 1..Len(idx) |->
                  [op |-> "rim", ball |-> l[idx[m]].id,
                   cubemap |-> 0, depth_write |-> FALSE]]
    IN  [cmds |-> opaque \o rim, depth_mask |-> TRUE]

\* draw_scene: glClear, draw_skybox, Ball::draw_list.
draw_scene(l, skip, mask) ==
    LET dl == draw_list(l, skip, mask)
    IN  [cmds |-> <<[op |-> "clear", ball |-> 0, cubemap |-> 0, depth_write |-> mask],
                    [op |-> "skybox", ball |-> 0, cubemap |-> 0, depth_write |-> mask]>>
                  \o dl.cmds,
         depth_mask |-> dl.depth_mask]

\* Mutant of capture_steps: the framebuffers of +Y and -Y are exchanged.
capture_steps_y_exchanged ==
    << [index |-> plus_x_index,  dir |-> <<1, 0, 0>>,  up |-> <<0, -1, 0>>],
       [index |-> minus_x_index, dir |-> <<-1, 0, 0>>, up |-> <<0, -1, 0>>],
       [index |-> minus_y_index, dir |-> <<0, 1, 0>>,  up |-> <<0, 0, 1>>],
       [index |-> plus_y_index,  dir |-> <<0, -1, 0>>, up |-> <<0, 0, -1>>],
       [index |-> plus_z_index,  dir |-> <<0, 0, 1>>,  up |-> <<0, -1, 0>>],
       [index |-> minus_z_index, dir |-> <<0, 0, -1>>, up |-> <<0, -1, 0>>] >>

\* The six statements of Ball::update_reflection_texture, in source order:
\* the framebuffer index bound and the direction and up vector of lookAt.
capture_steps ==
    << [index |-> plus_x_index,  dir |-> <<1, 0, 0>>,  up |-> <<0, -1, 0>>],
       [index |-> minus_x_index, dir |-> <<-1, 0, 0>>, up |-> <<0, -1, 0>>],
       [index |-> plus_y_index,  dir |-> <<0, 1, 0>>,  up |-> <<0, 0, 1>>],
       [index |-> minus_y_index, dir |-> <<0, -1, 0>>, up |-> <<0, 0, -1>>],
       [index |-> plus_z_index,  dir |-> <<0, 0, 1>>,  up |-> <<0, -1, 0>>],
       [index |-> minus_z_index, dir |-> <<0, 0, -1>>, up |-> <<0, -1, 0>>] >>

\* What a draw into framebuffer fb leaves behind: the cubemap face attached
\* to fb holds an image rendered for the ball by.
rendered_into(fbc, fb, by) ==
    [cubemap |-> fbc[fb].cubemap, face |-> fbc[fb].face, by |-> by]

\* Statement k of update_reflection_texture run on l[i]: the framebuffer it
\* binds and the record of the draw_scene call it makes (skip is this).
update_reflection_texture(l, i, k, mask) ==
    LET st == capture_steps[k]
        fb == l[i].render.framebuffers[st.index]
        sc == draw_scene(l, l[i].id, mask)
    IN  [bound |-> fb,
         depth_mask |-> sc.depth_mask,
         render |-> [target |-> fb, owner |-> l[i].id, eye |-> l[i].position,
                     dir |-> st.dir, up |-> st.up, skip |-> l[i].id,
                     scene |-> l, cmds |-> sc.cmds]]

\* --------------------------------------------------------- shader programs

\* The three calls of make_program: draw_skybox, and the two of draw_list.
Programs ==
    { [vs_code |-> "skybox_vs_source", fs_code |-> "skybox_fs_source"],
      [vs_code |-> "vs0_source", fs_code |-> "fs0_source"],
      [vs_code |-> "vs1_source", fs_code |-> "fs1_source"] }

\* The lines of make_program where PANIC_IF_GL_ERROR stands.
GLErrorChecks == {103, 117, 140}

\* No call of make_program in progress.
NoProgram == [pc |-> "idle"]

\* The entry of make_program(vs_code, fs_code).  gl holds what GL will
\* answer: the two compile statuses, the link status, the info logs, and
\* the PANIC_IF_GL_ERROR line at which glGetError is non-zero (0: none).
make_program_call(prog, gl) ==
    [pc |-> "entry", vs_code |-> prog.vs_code, fs_code |-> prog.fs_code, gl |-> gl,
     id |-> "vs_id", attached |-> {}, stderr |-> <<>>, box |-> <<>>,
     exit_code |-> -1, ret |-> "none"]

\* panic: one line on stderr, the message box, exit(1).
panic(m, message, reason) ==
    [m EXCEPT !.stderr = Append(@, <<"argv0", message, reason>>),
              !.box = <<message, reason>>,
              !.exit_code = 1,
              !.pc = "exited"]

\* PANIC_IF_GL_ERROR at the given line, then the rest.
panic_if_gl_error(m, line, rest) ==
    IF m.gl.error_at = line THEN panic(m, "OpenGL error", "PANIC_msg") ELSE rest

\* make_program up to the loop over the two shaders: the objects are
\* created, given their sources and compiled.
make_program_compile(m) ==
    panic_if_gl_error(m, 103,
       panic_if_gl_error(m, 117, [m EXCEPT !.pc = "status", !.id = "vs_id"]))

\* Mutant of make_program_status: the fprintf of the source is missing.
make_program_status_no_source(m) ==
    LET vs == m.id = "vs_id"
        okay == IF vs THEN m.gl.vs_ok ELSE m.gl.fs_ok
    IN  IF okay
        THEN [m EXCEPT !.attached = @ \cup {m.id},
                       !.id = "fs_id",
                       !.pc = IF vs THEN "status" ELSE "link"]
        ELSE panic(m, "Shader compilation error",
                   IF vs THEN m.gl.vs_log ELSE m.gl.fs_log)

\* One iteration of the loop over { vs_id, fs_id }: the compile status is
\* read; the shader is attached, or its source is printed and panic called.
make_program_status(m) ==
    LET vs == m.id = "vs_id"
        okay == IF vs THEN m.gl.vs_ok ELSE m.gl.fs_ok
    IN  IF okay
        THEN [m EXCEPT !.attached = @ \cup {m.id},
                       !.id = "fs_id",
                       !.pc = IF vs THEN "status" ELSE "link"]
        ELSE panic([m EXCEPT !.stderr =
                        Append(@, <<IF vs THEN m.vs_code ELSE m.fs_code>>)],
                   "Shader compilation error",
                   IF vs THEN m.gl.vs_log ELSE m.gl.fs_log)

\* glLinkProgram, the link status, and the return of program_id.
make_program_link(m) ==
    IF ~m.gl.link_ok
    THEN panic(m, "Shader link error", m.gl.program_log)
    ELSE panic_if_gl_error(m, 140, [m EXCEPT !.pc = "returned", !.ret = "program_id"])

\* ------------------------------------------------------------------ input

Events == {"TAB", "RETURN", "QUIT", "OTHER"}

\* One case of the switch of handle_controls on the globals paused and
\* do_one_tick and on its local no_quit.
handle_event(s, e) ==
    CASE e = "TAB"    -> [s EXCEPT !.paused = ~@]
      [] e = "RETURN" -> [s EXCEPT !.do_one_tick = TRUE]
      [] e = "QUIT"   -> [s EXCEPT !.no_quit = FALSE]
      [] OTHER        -> s

RECURSIVE poll_events(_, _)
\* The while (SDL_PollEvent(&event)) loop over the queued events evs.
poll_events(s, evs) ==
    IF evs = <<>> THEN s ELSE poll_events(handle_event(s, Head(evs)), Tail(evs))

\* handle_controls: no_quit starts true at every call.
handle_controls(p, d, evs) ==
    poll_events([paused |-> p, do_one_tick |-> d, no_quit |-> TRUE], evs)

RECURSIVE SeqsUpTo(_, _)
SeqsUpTo(S, n) ==
    IF n = 0 THEN {<<>>}
    ELSE LET shorter == SeqsUpTo(S, n - 1)
         IN  shorter \cup {Append(q, e) : q \in shorter, e \in S}

\* ------------------------------------------------------- Main's loop order

\* Mutant of next_pc: the captures run face by face over all balls instead
\* of ball by ball over all faces.
next_pc_face_major(s, n) ==
    CASE s.pc = "reset" ->
           IF s.i < n THEN [s EXCEPT !.i = @ + 1] ELSE [pc |-> "bounds", i |-> 1, j |-> 1]
      [] s.pc = "bounds" ->
           IF s.i < n THEN [s EXCEPT !.i = @ + 1] ELSE [pc |-> "pairs", i |-> 1, j |-> 1]
      [] s.pc = "pairs" ->
           IF s.j < n THEN [s EXCEPT !.j = @ + 1]
           ELSE IF s.i < n THEN [s EXCEPT !.i = @ + 1, !.j = 1]
           ELSE [pc |-> "capture", i |-> 1, j |-> 1]
      [] s.pc = "capture" ->
           IF s.i < n THEN [s EXCEPT !.i = @ + 1]
           ELSE IF s.j < 6 THEN [s EXCEPT !.i = 1, !.j = @ + 1]
           ELSE [pc |-> "present", i |-> 1, j |-> 1]
      [] OTHER -> [pc |-> "loop", i |-> 1, j |-> 1]

\* The statement of Main's frame that follows position s = [pc, i, j] for a
\* list of n balls: i is the ball of the (outer) loop, j the ball of the
\* inner pairwise loop or, in a capture, the statement of
\* update_reflection_texture.
next_pc(s, n) ==
    CASE s.pc = "reset" ->
           IF s.i < n THEN [s EXCEPT !.i = @ + 1] ELSE [pc |-> "bounds", i |-> 1, j |-> 1]
      [] s.pc = "bounds" ->
           IF s.i < n THEN [s EXCEPT !.i = @ + 1] ELSE [pc |-> "pairs", i |-> 1, j |-> 1]
      [] s.pc = "pairs" ->
           IF s.j < n THEN [s EXCEPT !.j = @ + 1]
           ELSE IF s.i < n THEN [s EXCEPT !.i = @ + 1, !.j = 1]
           ELSE [pc |-> "capture", i |-> 1, j |-> 1]
      [] s.pc = "capture" ->
           IF s.j < Len(capture_steps) THEN [s EXCEPT !.j = @ + 1]
           ELSE IF s.i < n THEN [s EXCEPT !.i = @ + 1, !.j = 1]
           ELSE [pc |-> "present", i |-> 1, j |-> 1]
      [] OTHER -> [pc |-> "loop", i |-> 1, j |-> 1]

\* Mutant of runs_tick: do_one_tick is not consulted.
runs_tick_unpaused_only(p, d) == ~p

\* The test "if (!paused || do_one_tick)" of Main.
runs_tick(p, d) == ~p \/ d

RECURSIVE pair_loop(_, _)
\* The nested pairwise loops of the tick block from position s on.
pair_loop(l, s) ==
    IF s.pc # "pairs" THEN l
    ELSE pair_loop(IF pair_guard(l, s.i, s.j) THEN bounce_ball(l, s.i, s.j).list ELSE l,
                   next_pc(s, Len(l)))

\* The three loops of the tick block of Main, run to the end on the list l.
physics_tick(l) ==
    LET cleared == [k \in DOMAIN l |-> reset_bounce_flag(l[k])]
        moved == [k \in DOMAIN l |-> tick(bounce_bounds(cleared[k]).ball)]
    IN  IF l = <<>> THEN l ELSE pair_loop(moved, [pc |-> "pairs", i |-> 1, j |-> 1])

\* ------------------------------------------------------------------ state

VARIABLES
    list,                  \* Main's BallList, in list order
    recycled_ball_render,  \* Ball::recycled_ball_render
    fb_color,              \* GL: colour attachment of each framebuffer name
    gl_bound,              \* GL: the framebuffer bound (0 is the window)
    gl_depth_mask,         \* GL: the depth mask
    paused,
    do_one_tick,
    no_quit,               \* Main's no_quit
    ctl,                   \* where Main is: [pc, i, j]
    tk,                    \* record of the physics tick in progress or last run
    fr,                    \* record of the frame (loop iteration) in progress
    last,                  \* the latest call of bounce_bounds + tick or bounce_ball
    renders,               \* the draw_scene calls of the capture (or present) in progress
    pool_log,              \* the constructor and destructor calls made so far
    mp,                    \* a call of make_program: arguments, GL's answers, progress
    poll,                  \* the update in progress or last run, event by event
    gl_rendered            \* GL: the cubemap faces drawn into so far, and for whom

vars == <<list, recycled_ball_render, fb_color, gl_bound, gl_depth_mask, paused,
          do_one_tick, no_quit, ctl, tk, fr, last, renders, pool_log,
          mp, poll, gl_rendered>>

Ids == 1..NumBalls
Pairs == Ids \X Ids

\* The arguments Main's rnd() calls may give one ball: positions inside the
\* box, velocity components between -3 and 3.  Three balls in a row that
\* overlap and close on each other, near the minimal corner (edges of theirs
\* are beyond min_x and min_y, but they move inwards); a ball leaving
\* through the three minimal walls, slowly through the floor, which overlaps
\* and closes on the three once reflected; a ball leaving through the three
\* maximal walls.
InitChoices ==
    { [position |-> <<-7800, 900, -6000>>,  velocity |-> <<10000, 5000, 0>>],
      [position |-> <<-6900, 900, -6000>>,  velocity |-> <<0, 5000, 0>>],
      [position |-> <<-6000, 900, -6000>>,  velocity |-> <<-10000, 5000, 0>>],
      [position |-> <<-7100, 900, -7100>>,  velocity |-> <<-20000, -200, -20000>>],
      [position |-> <<7900, 19900, 7900>>,  velocity |-> <<20000, 20000, 20000>>] }

\* No update has begun.
NoUpdate ==
    [n |-> 0, paused_before |-> FALSE, pending_before |-> FALSE, evs |-> <<>>,
     list_before |-> <<>>, ticks |-> 0]

NoCall ==
    [op |-> "none", pre |-> <<>>, i |-> 0, j |-> 0, ret |-> FALSE,
     mid |-> <<>>, hits |-> {}]

NewTick(n, l) ==
    [n |-> n,
     stale |-> {k \in DOMAIN l : l[k].bounced},
     resets |-> [k \in Ids |-> 0],
     ticked |-> [k \in Ids |-> 0],
     walls |-> [k \in Ids |-> {}],
     swaps |-> [k \in Ids |-> 0],
     partner |-> [k \in Ids |-> 0],
     tested |-> [p \in Pairs |-> 0],
     hit |-> [p \in Pairs |-> 0],
     visited |-> 0,
     at_pairs |-> <<>>]

NewFrame(n, upd, run) ==
    [n |-> n, updated |-> upd, ticked |-> run,
     started |-> [k \in Ids |-> 0],
     faces |-> [k \in Ids |-> 0],
     at_capture |-> <<>>,
     presented |-> FALSE]

Init ==
    /\ list = <<>>
    /\ recycled_ball_render = <<>>
    /\ fb_color = <<>>
    /\ gl_bound = 0
    /\ gl_depth_mask = TRUE
    /\ paused = FALSE
    /\ do_one_tick = FALSE
    /\ no_quit = TRUE
    /\ ctl = [pc |-> "create", i |-> 1, j |-> 1]
    /\ tk = NewTick(0, <<>>)
    /\ fr = NewFrame(0, FALSE, FALSE)
    /\ last = NoCall
    /\ renders = <<>>
    /\ pool_log = <<>>
    /\ mp = NoProgram
    /\ poll = NoUpdate
    /\ gl_rendered = {}

\* ---------------------------------------------------------------- actions

\* One iteration of Main's creation loop: list.emplace_back(...).
CreateBall ==
    /\ ctl.pc = "create"
    /\ \E c \in InitChoices :
         LET made == Ball_ctor(c.position, c.velocity, ball_radius, Len(list) + 1,
                               recycled_ball_render, fb_color)
         IN  /\ list' = Append(list, made.ball)
             /\ recycled_ball_render' = made.recycled
             /\ fb_color' = made.fb_color
             /\ ctl' = IF Len(list) + 1 = NumBalls
                       THEN [pc |-> "loop", i |-> 1, j |-> 1] ELSE ctl
    /\ UNCHANGED <<pool_log, mp, poll, gl_rendered>>
    /\ UNCHANGED <<gl_bound, gl_depth_mask, paused, do_one_tick, no_quit, tk, fr,
                   last, renders>>

\* The top of an iteration of the while loop when an update is due:
\* handle_controls on the queued events, then the test for a tick.
Update ==
    /\ ctl.pc = "loop" /\ no_quit /\ fr.n < MaxFrames
    /\ \E evs \in SeqsUpTo(Events, MaxEvents) :
         LET h == handle_controls(paused, do_one_tick, evs)
             run == runs_tick(h.paused, h.do_one_tick)
         IN  /\ paused' = h.paused
             /\ no_quit' = h.no_quit
             /\ do_one_tick' = IF run THEN FALSE ELSE h.do_one_tick
             /\ ctl' = [pc |-> IF run THEN "reset" ELSE "capture", i |-> 1, j |-> 1]
             /\ tk' = IF run THEN NewTick(tk.n + 1, list) ELSE tk
             /\ fr' = NewFrame(fr.n + 1, TRUE, run)
    /\ last' = NoCall
    /\ renders' = <<>>
    /\ UNCHANGED <<pool_log, mp, poll, gl_rendered>>
    /\ UNCHANGED <<list, recycled_ball_render, fb_color, gl_bound, gl_depth_mask>>

\* The top of an iteration when less than 16 ms have passed: no update.
SkipUpdate ==
    /\ ctl.pc = "loop" /\ no_quit /\ fr.n < MaxFrames
    /\ ctl' = [pc |-> "capture", i |-> 1, j |-> 1]
    /\ fr' = NewFrame(fr.n + 1, FALSE, FALSE)
    /\ last' = NoCall
    /\ renders' = <<>>
    /\ UNCHANGED <<pool_log, mp, poll, gl_rendered>>
    /\ UNCHANGED <<list, recycled_ball_render, fb_color, gl_bound, gl_depth_mask,
                   paused, do_one_tick, no_quit, tk>>

\* One iteration of the first loop of the tick: ball.reset_bounce_flag().
ResetFlag ==
    /\ ctl.pc = "reset"
    /\ list' = [list EXCEPT ![ctl.i] = reset_bounce_flag(@)]
    /\ tk' = [tk EXCEPT !.resets[ctl.i] = @ + 1]
    /\ ctl' = next_pc(ctl, Len(list))
    /\ UNCHANGED <<pool_log, mp, poll, gl_rendered>>
    /\ UNCHANGED <<recycled_ball_render, fb_color, gl_bound, gl_depth_mask, paused,
                   do_one_tick, no_quit, fr, last, renders>>

\* One iteration of the second loop: ball.bounce_bounds(); ball.tick(0.01f).
BoundsAndTick ==
    /\ ctl.pc = "bounds"
    /\ LET b == bounce_bounds(list[ctl.i])
           nxt == next_pc(ctl, Len(list))
       IN  /\ list' = [list EXCEPT ![ctl.i] = tick(b.ball)]
           /\ last' = [op |-> "bounce_bounds", pre |-> list, i |-> ctl.i, j |-> 0,
                       ret |-> b.flag, mid |-> <<b.ball>>, hits |-> b.hits]
           /\ tk' = [tk EXCEPT !.walls[ctl.i] = @ \cup b.hits,
                               !.ticked[ctl.i] = @ + 1,
                               !.at_pairs = IF nxt.pc = "pairs" THEN list' ELSE @]
           /\ ctl' = nxt
    /\ UNCHANGED <<pool_log, mp, poll, gl_rendered>>
    /\ UNCHANGED <<recycled_ball_render, fb_color, gl_bound, gl_depth_mask, paused,
                   do_one_tick, no_quit, fr, renders>>

\* One iteration of the inner pairwise loop: the guard and, under it,
\* ball.bounce_ball(&other).
PairStep ==
    /\ ctl.pc = "pairs"
    /\ LET i == ctl.i
           j == ctl.j
           r == bounce_ball(list, i, j)
       IN  IF pair_guard(list, i, j)
           THEN /\ list' = r.list
                /\ last' = [op |-> "bounce_ball", pre |-> list, i |-> i, j |-> j,
                            ret |-> r.ret, mid |-> <<>>, hits |-> {}]
                /\ tk' = [tk EXCEPT
                            !.visited = @ + 1,
                            !.tested[<<i, j>>] = @ + 1,
                            !.hit[<<i, j>>] = @ + (IF r.ret THEN 1 ELSE 0),
                            !.swaps = IF r.ret
                                      THEN [@ EXCEPT ![i] = @ + 1, ![j] = @ + 1] ELSE @,
                            !.partner = IF r.ret
                                        THEN [@ EXCEPT ![i] = j, ![j] = i] ELSE @]
           ELSE /\ list' = list
                /\ last' = [op |-> "pair_skipped", pre |-> list, i |-> i, j |-> j,
                            ret |-> FALSE, mid |-> <<>>, hits |-> {}]
                /\ tk' = [tk EXCEPT !.visited = @ + 1]
    /\ ctl' = next_pc(ctl, Len(list))
    /\ UNCHANGED <<pool_log, mp, poll, gl_rendered>>
    /\ UNCHANGED <<recycled_ball_render, fb_color, gl_bound, gl_depth_mask, paused,
                   do_one_tick, no_quit, fr, renders>>

\* One of the six bind-and-draw statements of ball.update_reflection_texture(list).
CaptureStep ==
    /\ ctl.pc = "capture"
    /\ LET u == update_reflection_texture(list, ctl.i, ctl.j, gl_depth_mask)
       IN  /\ gl_bound' = u.bound
           /\ gl_depth_mask' = u.depth_mask
           /\ renders' = IF ctl.j = 1 THEN <<u.render>> ELSE Append(renders, u.render)
           /\ gl_rendered' = gl_rendered \cup {rendered_into(fb_color, u.bound, u.render.owner)}
           /\ fr' = [fr EXCEPT
                       !.started[ctl.i] = @ + (IF ctl.j = 1 THEN 1 ELSE 0),
                       !.faces[ctl.i] = @ + 1,
                       !.at_capture = IF @ = <<>> THEN list ELSE @]
    /\ ctl' = next_pc(ctl, Len(list))
    /\ UNCHANGED <<pool_log, mp, poll>>
    /\ UNCHANGED <<list, recycled_ball_render, fb_color, paused, do_one_tick, no_quit,
                   tk, last>>

\* The end of the iteration: the window is bound and the scene drawn to it.
Present ==
    /\ ctl.pc = "present"
    /\ LET sc == draw_scene(list, 0, gl_depth_mask)
       IN  /\ gl_bound' = 0
           /\ gl_depth_mask' = sc.depth_mask
           /\ renders' = << [target |-> 0, owner |-> 0, eye |-> <<0, 0, 2 * min_z>>,
                             dir |-> <<0, 0, 0>>, up |-> <<0, 1, 0>>, skip |-> 0,
                             scene |-> list, cmds |-> sc.cmds] >>
    /\ fr' = [fr EXCEPT !.presented = TRUE]
    /\ ctl' = next_pc(ctl, Len(list))
    /\ UNCHANGED <<pool_log, mp, poll, gl_rendered>>
    /\ UNCHANGED <<list, recycled_ball_render, fb_color, paused, do_one_tick, no_quit,
                   tk, last>>

\* The while loop ends and Main returns: the list is destroyed, and each
\* ~Ball pushes its bundle onto recycled_ball_render.
Exit ==
    /\ ctl.pc = "loop" /\ ~no_quit
    /\ recycled_ball_render' =
           recycled_ball_render \o [k \in 1..Len(list) |-> list[k].render]
    /\ list' = <<>>
    /\ ctl' = [pc |-> "done", i |-> 1, j |-> 1]
    /\ last' = NoCall
    /\ UNCHANGED <<pool_log, mp, poll, gl_rendered>>
    /\ UNCHANGED <<fb_color, gl_bound, gl_depth_mask, paused, do_one_tick, no_quit,
                   tk, fr, renders>>

Next ==
    \/ CreateBall
    \/ Update
    \/ SkipUpdate
    \/ ResetFlag
    \/ BoundsAndTick
    \/ PairStep
    \/ CaptureStep
    \/ Present
    \/ Exit

Spec == Init /\ [][Next]_vars

\* ------------------------------------------- the bundle pool on its own

\* The bundles GL holds: one per cubemap name with its six framebuffers.
bundle_count(fbc) == Len(fbc) \div 6

\* A BallList with one element erased.
erase(l, k) == SubSeq(l, 1, k - 1) \o SubSeq(l, k + 1, Len(l))

\* list.emplace_back(...) at any time: one constructor call.
PoolAdd ==
    /\ Len(list) < NumBalls /\ Len(pool_log) < MaxPoolOps
    /\ \E c \in InitChoices :
         LET made == Ball_ctor(c.position, c.velocity, ball_radius,
                               Len(pool_log) + 1, recycled_ball_render, fb_color)
         IN  /\ list' = Append(list, made.ball)
             /\ recycled_ball_render' = made.recycled
             /\ fb_color' = made.fb_color
             /\ pool_log' = Append(pool_log,
                    [op |-> "Ball", id |-> made.ball.id, render |-> made.ball.render,
                     free_before |-> recycled_ball_render, free_after |-> made.recycled,
                     bundles_before |-> bundle_count(fb_color),
                     bundles_after |-> bundle_count(made.fb_color)])
    /\ UNCHANGED <<gl_bound, gl_depth_mask, paused, do_one_tick, no_quit, ctl, tk, fr,
                   last, renders, mp, poll, gl_rendered>>

\* The list giving up one element at any time: one destructor call.
PoolRemove ==
    /\ Len(pool_log) < MaxPoolOps
    /\ \E k \in DOMAIN list :
         LET freed == Ball_dtor(list[k], recycled_ball_render)
         IN  /\ list' = erase(list, k)
             /\ recycled_ball_render' = freed
             /\ pool_log' = Append(pool_log,
                    [op |-> "~Ball", id |-> list[k].id, render |-> list[k].render,
                     free_before |-> recycled_ball_render, free_after |-> freed,
                     bundles_before |-> bundle_count(fb_color),
                     bundles_after |-> bundle_count(fb_color)])
    /\ UNCHANGED <<fb_color, gl_bound, gl_depth_mask, paused, do_one_tick, no_quit, ctl,
                   tk, fr, last, renders, mp, poll, gl_rendered>>

PoolNext ==
    \/ PoolAdd
    \/ PoolRemove

PoolSpec == Init /\ [][PoolNext]_vars

\* ------------------------------------------- make_program on its own

\* What GL may answer during one call of make_program.
GLAnswers ==
    [vs_ok : BOOLEAN, fs_ok : BOOLEAN, link_ok : BOOLEAN,
     error_at : {0} \cup GLErrorChecks,
     vs_log : {"vs_info_log"}, fs_log : {"fs_info_log"},
     program_log : {"program_info_log"}]

\* A call of make_program is entered, with nothing else going on.
ShaderInit ==
    /\ mp \in {make_program_call(prog, gl) : prog \in Programs, gl \in GLAnswers}
    /\ list = <<>>
    /\ recycled_ball_render = <<>>
    /\ fb_color = <<>>
    /\ gl_bound = 0
    /\ gl_depth_mask = TRUE
    /\ paused = FALSE
    /\ do_one_tick = FALSE
    /\ no_quit = TRUE
    /\ ctl = [pc |-> "create", i |-> 1, j |-> 1]
    /\ tk = NewTick(0, <<>>)
    /\ fr = NewFrame(0, FALSE, FALSE)
    /\ last = NoCall
    /\ renders = <<>>
    /\ pool_log = <<>>
    /\ poll = NoUpdate
    /\ gl_rendered = {}

ShaderRest ==
    <<list, recycled_ball_render, fb_color, gl_bound, gl_depth_mask, paused,
      do_one_tick, no_quit, ctl, tk, fr, last, renders, pool_log, poll,
      gl_rendered>>

MakeProgramCompile ==
    /\ mp.pc = "entry"
    /\ mp' = make_program_compile(mp)
    /\ UNCHANGED ShaderRest

MakeProgramStatus ==
    /\ mp.pc = "status"
    /\ mp' = make_program_status(mp)
    /\ UNCHANGED ShaderRest

MakeProgramLink ==
    /\ mp.pc = "link"
    /\ mp' = make_program_link(mp)
    /\ UNCHANGED ShaderRest

ShaderNext ==
    \/ MakeProgramCompile
    \/ MakeProgramStatus
    \/ MakeProgramLink

ShaderSpec == ShaderInit /\ [][ShaderNext]_vars

\* --------------------------------- the update of Main, event by event

ControlRest ==
    <<recycled_ball_render, fb_color, gl_bound, gl_depth_mask, tk, fr, last, renders,
      pool_log, mp, gl_rendered>>

\* The creation loop, the balls taken in the order of their x coordinates.
ControlCreate ==
    /\ CreateBall
    /\ list # <<>> => list'[Len(list')].position[1] > list[Len(list)].position[1]

\* An update is due: handle_controls is entered, its no_quit true.
BeginUpdate ==
    /\ ctl.pc = "loop" /\ no_quit /\ poll.n < MaxFrames
    /\ ctl' = [ctl EXCEPT !.pc = "poll"]
    /\ poll' = [n |-> poll.n + 1, paused_before |-> paused,
                pending_before |-> do_one_tick, evs |-> <<>>,
                list_before |-> list, ticks |-> 0]
    /\ UNCHANGED <<list, paused, do_one_tick, no_quit>>
    /\ UNCHANGED ControlRest

\* SDL_PollEvent hands over one event and the switch handles it.
PollEvent ==
    /\ ctl.pc = "poll" /\ Len(poll.evs) < MaxEvents
    /\ \E e \in Events :
         LET s == handle_event([paused |-> paused, do_one_tick |-> do_one_tick,
                                no_quit |-> no_quit], e)
         IN  /\ paused' = s.paused
             /\ do_one_tick' = s.do_one_tick
             /\ no_quit' = s.no_quit
             /\ poll' = [poll EXCEPT !.evs = Append(@, [e |-> e, paused_at |-> paused])]
    /\ UNCHANGED <<list, ctl>>
    /\ UNCHANGED ControlRest

\* The queue is empty: handle_controls returns, and the tick block runs or
\* not.  The drawing that ends the iteration writes none of these variables.
TickTest ==
    /\ ctl.pc = "poll"
    /\ LET run == runs_tick(paused, do_one_tick)
       IN  /\ do_one_tick' = IF run THEN FALSE ELSE do_one_tick
           /\ list' = IF run THEN physics_tick(list) ELSE list
           /\ poll' = [poll EXCEPT !.ticks = IF run THEN @ + 1 ELSE @]
    /\ ctl' = [ctl EXCEPT !.pc = "loop"]
    /\ UNCHANGED <<paused, no_quit>>
    /\ UNCHANGED ControlRest

ControlNext ==
    \/ ControlCreate
    \/ BeginUpdate
    \/ PollEvent
    \/ TickTest

ControlSpec == Init /\ [][ControlNext]_vars

\* ------------------------------------------------------------------ claims

\* The pairwise phase of the tick recorded in tk has run to its end.
PairsDone == tk.n > 0 /\ tk.visited = NumBalls * NumBalls

\* The physics tick recorded in tk is over (and no later one has begun).
TickDone == PairsDone /\ ctl.pc \in {"capture", "present", "loop"}

Triples ==
    {t \in Ids \X Ids \X Ids : t[1] < t[2] /\ t[2] < t[3]}

\* In the list l, balls a and b overlap and are on a collision course.
Closing(l, a, b) == bounce_ball_hits(l[a], l[b])

\* At the start of the pairwise phase the balls of t overlapped and closed
\* on each other two by two, none of them had touched a wall, and no ball
\* outside t overlapped and closed on one of them.
MutualTriple(t) ==
    /\ tk.at_pairs # <<>>
    /\ \A x \in 1..3 : tk.walls[t[x]] = {}
    /\ \A x, y \in 1..3 : x # y => Closing(tk.at_pairs, t[x], t[y])
    /\ \A d \in Ids \ {t[1], t[2], t[3]} :
          \A x \in 1..3 : ~Closing(tk.at_pairs, t[x], d)

\* The pairs of the triple t that swapped velocities with each other.
SwappedWithin(t) ==
    {q \in {<<1, 2>>, <<1, 3>>, <<2, 3>>} : tk.partner[t[q[1]]] = t[q[2]]}

\* C1: within one tick a ball whose bounced flag is set takes part in no
\* further collision: bounce_ball is only ever called on two unflagged
\* balls, each ball swaps velocities at most once, a ball that bounced off
\* a wall swaps zero times, and of three balls that overlap and close on
\* each other (no wall involved) exactly one pair swaps and the third ball
\* does not.
C1_NoDoubleBounce ==
    /\ \A k \in Ids : tk.swaps[k] <= 1
    /\ \A k \in Ids : tk.walls[k] # {} => tk.swaps[k] = 0
    /\ last.op = "bounce_ball" =>
          ~last.pre[last.i].bounced /\ ~last.pre[last.j].bounced
    /\ PairsDone =>
          \A t \in Triples :
              MutualTriple(t) =>
                 /\ Cardinality(SwappedWithin(t)) = 1
                 /\ \E x \in 1..3 : tk.swaps[t[x]] = 0

\* C1 witness: a tick is over in which three balls overlapped and closed on
\* each other, one pair of them swapped and the third kept its velocity.
C1_Witness ==
    /\ TickDone
    /\ \E t \in Triples :
          /\ MutualTriple(t)
          /\ Cardinality(SwappedWithin(t)) = 1
          /\ \E x \in 1..3 : tk.swaps[t[x]] = 0 /\
                list[t[x]].velocity = tk.at_pairs[t[x]].velocity

\* C2 as stated: bounce_ball is evaluated at most once for each unordered
\* pair of distinct balls in one tick.
C2_UnorderedPairOnce ==
    \A i, j \in Ids : i # j => tk.tested[<<i, j>>] + tk.tested[<<j, i>>] <= 1

\* C2 amended: bounce_ball is evaluated at most once for each ordered pair
\* (caller, other) of distinct balls and never on a ball and itself, so at
\* most twice for an unordered pair; and a pair is evaluated the second time
\* only when the first evaluation registered no hit, in which case the
\* second registers none either.
C2_OrderedPairOnce ==
    /\ \A i \in Ids : tk.tested[<<i, i>>] = 0
    /\ \A i, j \in Ids : tk.tested[<<i, j>>] <= 1
    /\ \A i, j \in Ids :
          tk.tested[<<i, j>>] + tk.tested[<<j, i>>] = 2 =>
             tk.hit[<<i, j>>] + tk.hit[<<j, i>>] = 0

\* C2 witness: a pairwise phase is over in which one pair of overlapping
\* balls was evaluated in both orders, neither evaluation registering a hit.
C2_Witness ==
    /\ PairsDone
    /\ \E i, j \in Ids :
          /\ i # j /\ tk.tested[<<i, j>>] = 1 /\ tk.tested[<<j, i>>] = 1
          /\ tk.hit[<<i, j>>] + tk.hit[<<j, i>>] = 0

\* The ball is not past the named boundary: its edge is on it or inside.
NotPast(ball, wall) ==
    CASE wall = "max_x" -> ball.position[1] + ball.radius <= max_x
      [] wall = "max_y" -> ball.position[2] + ball.radius <= max_y
      [] wall = "max_z" -> ball.position[3] + ball.radius <= max_z
      [] wall = "min_x" -> ball.position[1] - ball.radius >= min_x
      [] wall = "min_y" -> ball.position[2] - ball.radius >= min_y
      [] wall = "min_z" -> ball.position[3] - ball.radius >= min_z

\* C3 as stated: at the end of a tick no ball is past a boundary it bounced
\* off during the tick.
C3_ClampAtEndOfTick ==
    TickDone =>
       \A k \in DOMAIN list : \A w \in tk.walls[k] : NotPast(list[k], w)

\* C3 amended: at the end of a tick a ball is not past a boundary it
\* bounced off during the tick, the floor min_y excepted.  After a bounce
\* off the floor the integration of the same tick subtracts gravity * dt
\* from the reflected speed v before it moves the ball, so the lower edge
\* ends at min_y + dt * (v - gravity * dt): on or above the floor exactly
\* when v >= gravity * dt, and otherwise below it by less than
\* gravity * dt * dt.
C3_ClampExceptFloor ==
    TickDone =>
       \A k \in DOMAIN list : \A w \in tk.walls[k] :
          LET edge == list[k].position[2] - list[k].radius
              v_end == list[k].velocity[2]
          IN  IF w # "min_y" THEN NotPast(list[k], w)
              ELSE /\ edge = min_y + v_end \div dt_den
                   /\ NotPast(list[k], w) <=> v_end >= 0
                   /\ edge * dt_den * dt_den > min_y * dt_den * dt_den - gravity

\* C3 witness: a tick is over in which one ball bounced off a maximal wall
\* and ended inside it, and another bounced off the floor and ended below.
C3_Witness ==
    /\ TickDone
    /\ \E k \in DOMAIN list : "max_x" \in tk.walls[k] /\ NotPast(list[k], "max_x")
    /\ \E k \in DOMAIN list : "min_y" \in tk.walls[k] /\ ~NotPast(list[k], "min_y")

\* C4: when bounce_ball(A, B) registers a hit, A ends with B's old
\* velocity and B with A's, both flags are set, the positions and radii of
\* A and B and every other ball are as before.
C4_SwapSymmetric ==
    (last.op = "bounce_ball" /\ last.ret /\ ctl.pc # "done") =>
       LET a == last.i
           b == last.j
       IN  /\ list[a].velocity = last.pre[b].velocity
           /\ list[b].velocity = last.pre[a].velocity
           /\ list[a].bounced /\ list[b].bounced
           /\ list[a].position = last.pre[a].position
           /\ list[b].position = last.pre[b].position
           /\ list[a].radius = last.pre[a].radius
           /\ list[b].radius = last.pre[b].radius
           /\ \A k \in DOMAIN list : k \notin {a, b} => list[k] = last.pre[k]

\* C4 witness: a hit between two balls of different velocities.
C4_Witness ==
    /\ last.op = "bounce_ball" /\ last.ret /\ ctl.pc = "pairs"
    /\ last.pre[last.i].velocity # last.pre[last.j].velocity
    /\ list[last.i].velocity = last.pre[last.j].velocity

\* The two conditions of a hit, on the balls a and b as bounce_ball found them.
Overlap(a, b) ==
    LET d == vsub(b.position, a.position)
    IN  d[1] * d[1] + d[2] * d[2] + d[3] * d[3]
           < (a.radius + b.radius) * (a.radius + b.radius)

Approaching(a, b) ==
    LET d == vsub(b.position, a.position)
        w == vsub(a.velocity, b.velocity)
    IN  d[1] * w[1] + d[2] * w[2] + d[3] * w[3] > 0

\* C5: bounce_ball swaps, and returns true, exactly when the squared
\* distance is below the squared sum of the radii and the displacement
\* dotted with the velocity difference is positive; otherwise nothing
\* changes and it returns false; and the call has the same outcome with
\* caller and other exchanged.
C5_HitCondition ==
    (last.op = "bounce_ball" /\ ctl.pc # "done") =>
       LET a == last.pre[last.i]
           b == last.pre[last.j]
           other == bounce_ball(last.pre, last.j, last.i)
       IN  /\ last.ret <=> (Overlap(a, b) /\ Approaching(a, b))
           /\ last.ret <=> (list[last.i].velocity = b.velocity /\
                            list[last.j].velocity = a.velocity /\
                            list[last.i].bounced /\ list[last.j].bounced)
           /\ ~last.ret => list = last.pre
           /\ other.list = list
           /\ other.ret = last.ret

\* C5 witness: bounce_ball was called on two overlapping balls that were
\* not closing, and left them alone.
C5_Witness ==
    /\ last.op = "bounce_ball" /\ ~last.ret /\ ctl.pc = "pairs"
    /\ Overlap(last.pre[last.i], last.pre[last.j])
    /\ ~Approaching(last.pre[last.i], last.pre[last.j])
    /\ list = last.pre

AxisMax == <<max_x, max_y, max_z>>
AxisMin == <<min_x, min_y, min_z>>
MaxWall == <<"max_x", "max_y", "max_z">>
MinWall == <<"min_x", "min_y", "min_z">>

\* The ball p has its edge strictly beyond the maximum (minimum) of axis a
\* and moves strictly outwards on that axis.
LeavingMax(p, a) == p.position[a] + p.radius > AxisMax[a] /\ p.velocity[a] > 0
LeavingMin(p, a) == p.position[a] - p.radius < AxisMin[a] /\ p.velocity[a] < 0

\* C6: bounce_bounds, on each axis and for each of its two boundaries,
\* negates the velocity component and puts the edge exactly on the boundary
\* if and only if the edge is strictly beyond the boundary and the velocity
\* points strictly outwards; an axis on which neither holds keeps its
\* position and velocity; bounced becomes true, and true is returned,
\* exactly when some boundary fired.
C6_BoundsRule ==
    last.op = "bounce_bounds" =>
       LET p == last.pre[last.i]
           m == last.mid[1]
       IN  /\ \A a \in 1..3 :
                /\ LeavingMax(p, a) =>
                      /\ m.velocity[a] = 0 - p.velocity[a]
                      /\ m.position[a] + m.radius = AxisMax[a]
                /\ LeavingMin(p, a) =>
                      /\ m.velocity[a] = 0 - p.velocity[a]
                      /\ m.position[a] - m.radius = AxisMin[a]
                /\ (~LeavingMax(p, a) /\ ~LeavingMin(p, a)) =>
                      /\ m.velocity[a] = p.velocity[a]
                      /\ m.position[a] = p.position[a]
                /\ MaxWall[a] \in last.hits <=> LeavingMax(p, a)
                /\ MinWall[a] \in last.hits <=> LeavingMin(p, a)
           /\ ~p.bounced
           /\ m.bounced <=> \E a \in 1..3 : LeavingMax(p, a) \/ LeavingMin(p, a)
           /\ last.ret <=> m.bounced
           /\ m.radius = p.radius

\* C6 witness: a ball moving up with its upper edge above max_y has had its
\* vertical velocity negated and its centre put at max_y - radius, while on
\* another call an edge beyond a boundary with inward velocity was left.
C6_Witness ==
    /\ last.op = "bounce_bounds"
    /\ LET p == last.pre[last.i]
           m == last.mid[1]
       IN  /\ p.position[2] + p.radius > max_y /\ p.velocity[2] > 0
           /\ m.velocity[2] < 0
           /\ m.position[2] = max_y - p.radius
           /\ m.bounced
    /\ \E k \in DOMAIN last.pre :
          /\ last.pre[k].position[1] - last.pre[k].radius < min_x
          /\ last.pre[k].velocity[1] > 0
          /\ tk.ticked[k] = 1 /\ tk.walls[k] = {}

\* C7: a tick runs its three phases in order over the whole list: every
\* flag is reset before the first bounds check (so a ball reaches its
\* bounds check unflagged), every ball has been bounds-checked and
\* integrated once before the first pairwise test, a pairwise test reads
\* positions and velocities as integration left them, and a flag that is
\* set during the tick was set by this tick.
C7_PhaseOrder ==
    /\ ctl.pc = "reset" => \A k \in Ids : tk.ticked[k] = 0
    /\ ctl.pc \in {"reset", "bounds"} => tk.visited = 0
    /\ ctl.pc = "bounds" =>
          \A k \in Ids : /\ tk.resets[k] = 1
                         /\ tk.ticked[k] = (IF k < ctl.i THEN 1 ELSE 0)
                         /\ k >= ctl.i => ~list[k].bounced
    /\ (ctl.pc = "pairs" \/ tk.visited > 0) =>
          \A k \in Ids : tk.resets[k] = 1 /\ tk.ticked[k] = 1
    /\ ctl.pc \in {"bounds", "pairs"} =>
          \A k \in Ids :
             list[k].bounced <=> (tk.walls[k] # {} \/ tk.swaps[k] > 0)
    /\ last.op = "bounce_ball" =>
          \A k \in {last.i, last.j} :
             /\ last.pre[k].position = tk.at_pairs[k].position
             /\ last.pre[k].velocity = tk.at_pairs[k].velocity

\* C7 witness: a pairwise test in a tick that began with a flag still set
\* by the tick before, on a ball that is now unflagged.
C7_Witness ==
    /\ ctl.pc = "pairs" /\ last.op = "bounce_ball"
    /\ \E k \in tk.stale : k \in {last.i, last.j} /\ ~last.pre[k].bounced

\* C8: within one iteration of the main loop the tick, if there is one, is
\* over for all balls before the first capture starts; the six renders of
\* one ball's capture are done before another ball's begin; every ball has
\* been captured exactly once when the screen is drawn; and no position or
\* velocity changes between the first capture and the present.
C8_FramePhases ==
    /\ ctl.pc \in {"reset", "bounds", "pairs"} =>
          /\ ~fr.presented
          /\ \A k \in Ids : fr.faces[k] = 0 /\ fr.started[k] = 0
    /\ ((\E k \in Ids : fr.faces[k] > 0) /\ fr.ticked) =>
          /\ tk.visited = NumBalls * NumBalls
          /\ \A k \in Ids : tk.resets[k] = 1 /\ tk.ticked[k] = 1
    /\ \A k \in Ids : fr.started[k] <= 1 /\ fr.faces[k] <= 6
    /\ \A k, m \in Ids :
          (k # m /\ fr.faces[k] > 0 /\ fr.faces[k] < 6) => fr.faces[m] \in {0, 6}
    /\ (fr.presented \/ ctl.pc = "present") =>
          \A k \in Ids : fr.started[k] = 1 /\ fr.faces[k] = 6
    /\ (fr.at_capture # <<>> /\ ctl.pc # "done") =>
          \A k \in DOMAIN list :
             /\ list[k].position = fr.at_capture[k].position
             /\ list[k].velocity = fr.at_capture[k].velocity

\* C8 witness: the screen has been drawn in an iteration that ran a whole
\* tick and then captured every ball once, the list being as the first
\* capture found it.
C8_Witness ==
    /\ fr.presented /\ fr.ticked /\ ctl.pc = "loop"
    /\ tk.visited = NumBalls * NumBalls
    /\ \A k \in Ids : fr.started[k] = 1 /\ fr.faces[k] = 6
    /\ fr.at_capture = list

\* The cubemap face a capture direction belongs to.
DirFace(d) ==
    CASE d = <<1, 0, 0>>  -> "POSITIVE_X"
      [] d = <<-1, 0, 0>> -> "NEGATIVE_X"
      [] d = <<0, 1, 0>>  -> "POSITIVE_Y"
      [] d = <<0, -1, 0>> -> "NEGATIVE_Y"
      [] d = <<0, 0, 1>>  -> "POSITIVE_Z"
      [] d = <<0, 0, -1>> -> "NEGATIVE_Z"
      [] OTHER -> "NONE"

AllDirs ==
    {<<1, 0, 0>>, <<-1, 0, 0>>, <<0, 1, 0>>, <<0, -1, 0>>, <<0, 0, 1>>, <<0, 0, -1>>}

\* The framebuffer names of a ball's bundle.
BundleTargets(ball) == {ball.render.framebuffers[x] : x \in 0..5}

\* The ball of the scene of render r that has the given id.
SceneBall(r, id) == r.scene[CHOOSE k \in DOMAIN r.scene : r.scene[k].id = id]

\* renders holds the draw_scene calls of a call of update_reflection_texture.
InCapture == renders # <<>> /\ renders[1].owner # 0

\* ... and that call has returned.
CaptureReturned == InCapture /\ (ctl.pc # "capture" \/ ctl.j = 1)

\* C9: one call of update_reflection_texture makes exactly six renders,
\* one for each of +X, -X, +Y, -Y, +Z, -Z; each of the ball's six
\* framebuffers is the target of exactly one; the framebuffer bound for a
\* direction has the cubemap face of that direction, of the ball's own
\* cubemap, as its colour attachment; no render goes to another ball's
\* bundle; and all six see the same list and the same capture position.
C9_CaptureSixFaces ==
    InCapture =>
       /\ Len(renders) <= 6
       /\ ctl.pc = "capture" /\ ctl.j > 1 => Len(renders) = ctl.j - 1
       /\ \A m \in DOMAIN renders :
             LET r == renders[m]
                 own == SceneBall(r, r.owner)
             IN  /\ r.owner = renders[1].owner
                 /\ r.target \in BundleTargets(own)
                 /\ fb_color[r.target].cubemap = own.render.cubemap
                 /\ fb_color[r.target].face = DirFace(r.dir)
                 /\ \A k \in DOMAIN r.scene :
                       r.scene[k].id # r.owner =>
                          r.target \notin BundleTargets(r.scene[k])
                 /\ r.scene = renders[1].scene
                 /\ r.eye = renders[1].eye
                 /\ r.eye = own.position
       /\ \A m, n \in DOMAIN renders :
             m # n => /\ renders[m].target # renders[n].target
                      /\ renders[m].dir # renders[n].dir
       /\ CaptureReturned =>
             /\ Len(renders) = 6
             /\ {renders[m].dir : m \in DOMAIN renders} = AllDirs
             /\ {renders[m].target : m \in DOMAIN renders}
                   = BundleTargets(SceneBall(renders[1], renders[1].owner))

\* C9 witness: the capture of the second ball of the list has returned,
\* with six renders into its own bundle.
C9_Witness ==
    /\ CaptureReturned
    /\ renders[1].owner = 2
    /\ Len(renders) = 6
    /\ \A m \in DOMAIN renders : fb_color[renders[m].target].cubemap = list[2].render.cubemap

\* How many draws of pass op the commands cmds hold for ball id.
Draws(cmds, op, id) ==
    Cardinality({m \in DOMAIN cmds : cmds[m].op = op /\ cmds[m].ball = id})

\* C10: in each of the six renders of a ball's capture the capturing ball
\* is drawn in neither the reflective nor the rim pass and every other
\* ball of the list exactly once in each; in the screen pass every ball is
\* drawn exactly once in each pass.
C10_SelfExcluded ==
    \A m \in DOMAIN renders :
       LET r == renders[m]
       IN  /\ r.skip = r.owner
           /\ \A k \in DOMAIN r.scene :
                 LET id == r.scene[k].id
                     n == IF r.owner # 0 /\ id = r.owner THEN 0 ELSE 1
                 IN  /\ Draws(r.cmds, "opaque", id) = n
                     /\ Draws(r.cmds, "rim", id) = n
           /\ \A c \in DOMAIN r.cmds :
                 r.cmds[c].op \in {"opaque", "rim"} =>
                    \E k \in DOMAIN r.scene : r.scene[k].id = r.cmds[c].ball

\* C10 witness: a render of a capture that drew two other balls and not
\* the capturing one.
C10_Witness ==
    /\ InCapture
    /\ LET r == renders[Len(renders)]
       IN  /\ Draws(r.cmds, "opaque", r.owner) = 0
           /\ Draws(r.cmds, "rim", r.owner) = 0
           /\ \E a, b \in DOMAIN r.scene :
                 /\ a # b /\ r.scene[a].id # r.owner /\ r.scene[b].id # r.owner
                 /\ Draws(r.cmds, "opaque", r.scene[a].id) = 1
                 /\ Draws(r.cmds, "rim", r.scene[b].id) = 1

\* ------------------------------------------------------------------- C11

\* The bundles ever allocated, read off GL's framebuffer table.
GLBundles ==
    { [framebuffers |-> [i \in 0..5 |-> 6 * (c - 1) + 1 + i], cubemap |-> c] :
        c \in 1..bundle_count(fb_color) }

Held(b) == Cardinality({k \in DOMAIN list : list[k].render = b})

InFree(b) ==
    Cardinality({k \in DOMAIN recycled_ball_render : recycled_ball_render[k] = b})

\* C11: after any sequence of constructor and destructor calls every bundle
\* ever allocated is in exactly one place, held by exactly one live ball or
\* once in recycled_ball_render; every bundle held or free is an allocated
\* one; every framebuffer keeps its attachment (nothing is destroyed); and
\* the number of bundles never decreases from one call to the next.
C11_BundleInOnePlace ==
    /\ \A b \in GLBundles : Held(b) + InFree(b) = 1
    /\ \A k \in DOMAIN list : list[k].render \in GLBundles
    /\ \A k \in DOMAIN recycled_ball_render : recycled_ball_render[k] \in GLBundles
    /\ \A b \in GLBundles : \A i \in 0..5 :
          /\ b.framebuffers[i] \in DOMAIN fb_color
          /\ fb_color[b.framebuffers[i]] =
                 [cubemap |-> b.cubemap, face |-> cubemap_face_enums[i]]
    /\ \A n \in DOMAIN pool_log :
          /\ pool_log[n].bundles_after >= pool_log[n].bundles_before
          /\ n > 1 => pool_log[n].bundles_before = pool_log[n - 1].bundles_after
          /\ n = Len(pool_log) => pool_log[n].bundles_after = bundle_count(fb_color)

\* Creations and removals have been mixed: after two removals a live ball
\* holds a bundle that it took from the free list while another bundle lies
\* in the free list.
C11_Witness ==
    /\ Len(pool_log) = MaxPoolOps
    /\ recycled_ball_render # <<>>
    /\ \E k \in DOMAIN list : \E n \in DOMAIN pool_log :
          /\ pool_log[n].op = "Ball" /\ pool_log[n].id = list[k].id
          /\ pool_log[n].free_before # <<>>
    /\ \E m, n \in DOMAIN pool_log :
          /\ m < n /\ pool_log[m].op = "~Ball" /\ pool_log[n].op = "~Ball"
    /\ bundle_count(fb_color) >= 2

\* ------------------------------------------------------------------- C12

\* A removal directly followed by a creation, as positions n, n + 1 of the log.
RemoveThenAdd(n) ==
    /\ n \in DOMAIN pool_log /\ n + 1 \in DOMAIN pool_log
    /\ pool_log[n].op = "~Ball" /\ pool_log[n + 1].op = "Ball"

\* C12: a constructor call allocates a bundle exactly when the free list is
\* empty; otherwise it takes the last bundle of the free list, which then
\* holds one bundle fewer, and allocates nothing.  A removal directly
\* followed by a creation leaves the number of bundles and the free list as
\* they were, and the new ball holds the bundle the removed ball released.
C12_RecycleBeforeAllocate ==
    /\ \A n \in DOMAIN pool_log :
          LET e == pool_log[n]
          IN  e.op = "Ball" =>
                IF e.free_before = <<>>
                THEN /\ e.bundles_after = e.bundles_before + 1
                     /\ e.render.cubemap = e.bundles_after
                     /\ e.free_after = <<>>
                ELSE /\ e.bundles_after = e.bundles_before
                     /\ e.render = e.free_before[Len(e.free_before)]
                     /\ e.free_after = SubSeq(e.free_before, 1, Len(e.free_before) - 1)
    /\ \A n \in DOMAIN pool_log :
          RemoveThenAdd(n) =>
             /\ pool_log[n + 1].bundles_after = pool_log[n].bundles_before
             /\ pool_log[n + 1].free_after = pool_log[n].free_before
             /\ Len(pool_log[n + 1].free_after) = Len(pool_log[n].free_before)
             /\ pool_log[n + 1].render = pool_log[n].render

\* A ball was removed while another bundle already lay in the free list, and
\* the next call created a ball; an earlier creation found the free list empty.
C12_Witness ==
    /\ \E n \in DOMAIN pool_log :
          RemoveThenAdd(n) /\ pool_log[n].free_before # <<>>
    /\ \E n \in DOMAIN pool_log :
          pool_log[n].op = "Ball" /\ pool_log[n].free_before = <<>>

\* ------------------------------------------------------------------- C13

\* The ids of the balls of scene other than skip, in list order.
Drawn(scene, skip) ==
    LET ids == [k \in 1..Len(scene) |-> scene[k].id]
    IN  SelectSeq(ids, LAMBDA b : b # skip)

\* C13: every draw_scene call issues the clear, then the skybox, then one
\* reflective draw for each ball other than skip, then one rim draw for each
\* of them, so no rim draw precedes a reflective draw; the depth mask is on
\* for the clear, the skybox and the reflective draws, off for exactly the
\* rim draws, and on again whenever a draw_scene call has returned.
C13_DrawOrder ==
    /\ gl_depth_mask = TRUE
    /\ \A m \in DOMAIN renders :
          LET r == renders[m]
              c == r.cmds
              idx == Drawn(r.scene, r.skip)
              n == Len(idx)
          IN  /\ Len(c) = 2 + 2 * n
              /\ c[1].op = "clear" /\ c[2].op = "skybox"
              /\ \A q \in 1..n :
                    /\ c[2 + q].op = "opaque" /\ c[2 + q].ball = idx[q]
                    /\ c[2 + n + q].op = "rim" /\ c[2 + n + q].ball = idx[q]
              /\ \A p, q \in DOMAIN c :
                    c[p].op = "rim" /\ c[q].op = "opaque" => q < p
              /\ \A q \in DOMAIN c : c[q].depth_write = (c[q].op # "rim")

\* The first call of update_reflection_texture of the run has returned: six
\* draw_scene calls, the first of them the lazily initialising one, each
\* with reflective and rim draws of the other balls.
C13_Witness ==
    /\ fr.n = 1 /\ InCapture /\ renders[1].owner = 1 /\ Len(renders) = 6
    /\ \A m \in DOMAIN renders :
          /\ Draws(renders[m].cmds, "opaque", 1) = 0
          /\ \A b \in 2..NumBalls :
                /\ Draws(renders[m].cmds, "opaque", b) = 1
                /\ Draws(renders[m].cmds, "rim", b) = 1

\* ------------------------------------------------------------------- C14

\* The balls present before and after a step, and what a step did to them.
Both == DOMAIN list \cap DOMAIN list'

Moved(k) ==
    list'[k].position # list[k].position \/ list'[k].velocity # list[k].velocity

\* C14: no step changes the radius of a ball; a step that changes a position
\* or a velocity is an iteration of the bounce_bounds + tick loop or of the
\* pairwise loop; a capture step and the screen draw leave position,
\* velocity, radius and bounced flag of every ball as they were; a
\* reset_bounce_flag step leaves position, velocity and radius as they were.
C14_OnlyPhysicsMoves ==
    [][ /\ \A k \in Both : list'[k].radius = list[k].radius
        /\ \A k \in Both : Moved(k) => ctl.pc \in {"bounds", "pairs"}
        /\ ctl.pc \in {"capture", "present"} => list' = list
        /\ ctl.pc = "reset" =>
              /\ DOMAIN list' = DOMAIN list
              /\ \A k \in Both :
                    list'[k] = [list[k] EXCEPT !.bounced = list'[k].bounced]
      ]_vars

\* A frame whose update ran a tick has been captured and drawn: the flags
\* were reset, every ball was integrated, a pair swapped velocities, and
\* the list is still the one the first capture saw.
C14_Witness ==
    /\ ctl.pc = "loop" /\ fr.presented /\ fr.ticked
    /\ \A k \in Ids : tk.resets[k] = 1 /\ tk.ticked[k] = 1 /\ fr.faces[k] = 6
    /\ fr.at_capture = list
    /\ \E k \in DOMAIN list : list[k].bounced
    /\ \A k \in DOMAIN list : list[k].radius = ball_radius
    /\ \A k \in DOMAIN list : list[k].position = tk.at_pairs[k].position
    /\ \E k \in DOMAIN list : list[k].velocity # tk.at_pairs[k].velocity

\* ------------------------------------------------------------------- C15

\* make_program is over: it returned or the process exited.
Finished == mp.pc \in {"returned", "exited"}

\* One of the three build steps fails (whether or not the call gets to it).
BuildFailed == ~mp.gl.vs_ok \/ ~mp.gl.fs_ok \/ ~mp.gl.link_ok

\* Everything written to stderr, piece by piece.
Printed == UNION {{mp.stderr[n][q] : q \in DOMAIN mp.stderr[n]} : n \in DOMAIN mp.stderr}

PanicLine(message, reason) == <<"argv0", message, reason>>

\* C15 as stated: whenever the vertex compile, the fragment compile or the
\* link fails, make_program returns no handle, the process exits, and what
\* it printed includes the source text of a shader of the program.
C15_SourceInEveryDiagnostic ==
    (Finished /\ mp.gl.error_at = 0 /\ BuildFailed) =>
        /\ mp.pc = "exited" /\ mp.ret = "none" /\ mp.exit_code = 1
        /\ {mp.vs_code, mp.fs_code} \cap Printed # {}

\* C15, amended: make_program returns a handle only when both compiles and
\* the link succeed and no GL error is pending; otherwise the process exits
\* with status 1.  A compile failure prints the source of the first shader
\* that failed (the vertex shader when both failed) and then the line
\* "Shader compilation error" with that shader's info log; a link failure
\* prints only the line "Shader link error" with the program's info log,
\* and no shader source; a GL error prints only the line "OpenGL error".
C15_CompileSourceLinkLog ==
    /\ mp.pc = "returned" =>
          /\ ~BuildFailed /\ mp.gl.error_at = 0
          /\ mp.ret = "program_id" /\ mp.attached = {"vs_id", "fs_id"}
          /\ mp.stderr = <<>> /\ mp.exit_code = -1
    /\ (Finished /\ (BuildFailed \/ mp.gl.error_at # 0)) =>
          mp.pc = "exited" /\ mp.ret = "none" /\ mp.exit_code = 1
    /\ mp.pc = "exited" =>
          mp.stderr =
             IF mp.gl.error_at \in {103, 117}
               THEN <<PanicLine("OpenGL error", "PANIC_msg")>>
             ELSE IF ~mp.gl.vs_ok
               THEN << <<mp.vs_code>>,
                       PanicLine("Shader compilation error", mp.gl.vs_log) >>
             ELSE IF ~mp.gl.fs_ok
               THEN << <<mp.fs_code>>,
                       PanicLine("Shader compilation error", mp.gl.fs_log) >>
             ELSE IF ~mp.gl.link_ok
               THEN <<PanicLine("Shader link error", mp.gl.program_log)>>
             ELSE <<PanicLine("OpenGL error", "PANIC_msg")>>

\* Both shaders compiled and were attached, the link failed, and the
\* process has exited.
C15_Witness ==
    /\ mp.pc = "exited" /\ mp.gl.error_at = 0
    /\ mp.gl.vs_ok /\ mp.gl.fs_ok /\ ~mp.gl.link_ok
    /\ mp.attached = {"vs_id", "fs_id"}

\* ------------------------------------------------------------------- C16

\* The latest step was ball.bounce_bounds(); ball.tick(0.01f) on list[last.i].
JustTicked == last.op = "bounce_bounds" /\ ctl.pc # "done"

\* C16: in a tick every ball is integrated exactly once, bounced or not,
\* right after its own bounce_bounds: the vertical velocity drops by
\* gravity * dt, the horizontal components stay, and the position advances
\* by dt times the velocity just updated; no other ball is touched.
C16_IntegrateOnce ==
    /\ \A k \in Ids :
          /\ tk.ticked[k] <= 1
          /\ ctl.pc = "bounds" => tk.ticked[k] = (IF k < ctl.i THEN 1 ELSE 0)
          /\ (tk.n > 0 /\ ctl.pc \notin {"reset", "bounds"}) => tk.ticked[k] = 1
    /\ JustTicked =>
          LET b == last.mid[1]
              a == list[last.i]
          IN  /\ b = bounce_bounds(last.pre[last.i]).ball
              /\ a.velocity[1] = b.velocity[1]
              /\ dt_den * a.velocity[2] = dt_den * b.velocity[2] - gravity
              /\ a.velocity[3] = b.velocity[3]
              /\ \A c \in 1..3 :
                    dt_den * (a.position[c] - b.position[c]) = a.velocity[c]
              /\ a = [b EXCEPT !.velocity = a.velocity, !.position = a.position]
              /\ \A k \in DOMAIN list : k # last.i => list[k] = last.pre[k]

\* The last ball of the list has just been integrated after bouncing off a
\* wall, and an earlier ball of the same tick was integrated without a bounce.
C16_Witness ==
    /\ JustTicked /\ last.i = NumBalls /\ last.ret /\ last.hits # {}
    /\ \A k \in Ids : tk.ticked[k] = 1
    /\ \E k \in Ids : tk.walls[k] = {}
    /\ list[last.i].position # last.pre[last.i].position

\* ------------------------------------------------------------------- C17

\* The pairwise phase of the tick recorded in tk is over.
PairPhaseOver == tk.n > 0 /\ ctl.pc \in {"capture", "present", "loop"}

\* The pairs that swapped in the tick, as sets of two balls.
Matched == {{p[1], p[2]} : p \in {q \in Pairs : tk.hit[q] > 0}}

\* C17: the pairs that swapped in a tick form a maximal matching.  No ball
\* is in two of them; when the pairwise phase is over no two balls that are
\* both still unflagged overlap on a collision course; and every pair that
\* overlapped on a collision course when the phase began and did not swap
\* has a member that bounced in this tick, off a wall or off another ball.
C17_MaximalMatching ==
    PairPhaseOver =>
       /\ \A e, f \in Matched : e # f => e \cap f = {}
       /\ \A i, j \in DOMAIN list :
             (i # j /\ ~list[i].bounced /\ ~list[j].bounced) =>
                ~(Overlap(list[i], list[j]) /\ Approaching(list[i], list[j]))
       /\ \A i, j \in DOMAIN list :
             ( /\ i # j
               /\ Overlap(tk.at_pairs[i], tk.at_pairs[j])
               /\ Approaching(tk.at_pairs[i], tk.at_pairs[j])
               /\ {i, j} \notin Matched ) =>
                \/ tk.walls[i] # {} \/ tk.walls[j] # {}
                \/ tk.swaps[i] > 0 \/ tk.swaps[j] > 0

\* A tick is over in which exactly one pair swapped and a third ball, which
\* touched no wall and overlapped a member of that pair on a collision
\* course when the phase began, was left without a partner.
C17_Witness ==
    /\ PairPhaseOver /\ PairsDone
    /\ Cardinality(Matched) = 1
    /\ \E i, j \in DOMAIN list :
          /\ i # j /\ {i, j} \notin Matched
          /\ Overlap(tk.at_pairs[i], tk.at_pairs[j])
          /\ Approaching(tk.at_pairs[i], tk.at_pairs[j])
          /\ tk.walls[i] = {} /\ tk.walls[j] = {}
          /\ tk.swaps[i] + tk.swaps[j] = 1

\* ------------------------------------------------------------------- C18

\* An update has run to its end and the next has not begun.
UpdateOver == ctl.pc = "loop" /\ poll.n > 0

\* The Return presses handled in the update, and those handled while
\* paused was false.
Returns == {q \in DOMAIN poll.evs : poll.evs[q].e = "RETURN"}

ReturnsUnpaused == {q \in Returns : ~poll.evs[q].paused_at}

\* C18 as stated: an update that ends paused runs a tick exactly when Return
\* was pressed since the previous update; no update runs more than one tick;
\* do_one_tick is false after an update that ran a tick; and a Return press
\* handled while paused was false gives no step once paused is true.
C18_NoStepFromUnpausedReturn ==
    UpdateOver =>
       /\ poll.ticks <= 1
       /\ paused => (poll.ticks = 1 <=> Returns # {})
       /\ (paused /\ poll.ticks = 0) => list = poll.list_before
       /\ poll.ticks = 1 => ~do_one_tick
       /\ (paused /\ Returns = ReturnsUnpaused) => poll.ticks = 0

\* C18, amended: an update that ends paused runs the tick block exactly
\* when Return was among the events of its own poll, and then once; an
\* update that runs no tick leaves the list as it was; do_one_tick is false
\* when an update begins and when it ends, so no step is carried from one
\* update to a later one; a Return handled while paused was false steps the
\* paused simulation only when a Tab later in the same poll set paused.
C18_StepOnlyFromOwnPoll ==
    /\ ctl.pc \in {"loop", "create"} => ~do_one_tick
    /\ ~poll.pending_before
    /\ UpdateOver =>
          /\ poll.ticks <= 1
          /\ paused => (poll.ticks = 1 <=> Returns # {})
          /\ ~paused => poll.ticks = 1
          /\ poll.ticks = 0 => list = poll.list_before
          /\ poll.ticks = 1 => list = physics_tick(poll.list_before)
          /\ (paused /\ poll.ticks = 1 /\ Returns = ReturnsUnpaused) =>
                \E q \in Returns : \E t \in DOMAIN poll.evs :
                   t > q /\ poll.evs[t].e = "TAB" /\ ~poll.evs[t].paused_at

\* The second update began paused, handled Return twice, ended paused and
\* ran exactly one tick, which moved the balls.
C18_Witness ==
    /\ UpdateOver /\ poll.n = 2 /\ paused /\ poll.paused_before
    /\ Cardinality(Returns) = 2 /\ poll.ticks = 1
    /\ list # poll.list_before

\* ------------------------------------------------------------------- C19

\* The draw calls of the draw_scene call that the next step of Main makes.
NextScene ==
    IF ctl.pc = "capture" THEN draw_scene(list, list[ctl.i].id, gl_depth_mask).cmds
    ELSE IF ctl.pc = "present" THEN draw_scene(list, 0, gl_depth_mask).cmds
    ELSE <<>>

\* All six faces of cubemap cm hold an image rendered for the ball id.
SixFaces(cm, id) ==
    \A f \in 0..5 :
       [cubemap |-> cm, face |-> cubemap_face_enums[f], by |-> id] \in gl_rendered

\* C19 as stated: whenever a ball is drawn with its reflection cubemap, in
\* the capture of another ball or on the screen, all six faces of that
\* cubemap have been rendered before by captures of that same ball.
C19_WrittenBeforeSampled ==
    \A q \in DOMAIN NextScene :
       NextScene[q].op = "opaque" => SixFaces(NextScene[q].cubemap, NextScene[q].ball)

\* What the loop order does give: a ball is drawn with a cubemap of six
\* rendered faces on the screen, in the capture of any ball that comes after
\* it in the list, and everywhere once its first capture has returned.
C19_WrittenAfterOwnCapture ==
    \A q \in DOMAIN NextScene :
       LET c == NextScene[q]
       IN  (c.op = "opaque" /\ (ctl.pc = "present" \/ c.ball < ctl.i \/ fr.n > 1
                                \/ fr.faces[c.ball] = 6))
              => SixFaces(c.cubemap, c.ball)

\* The first capture of the first frame is about to draw the other balls,
\* none of whose cubemaps has had a face rendered.
C19_Witness ==
    /\ ctl.pc = "capture" /\ ctl.i = 1 /\ ctl.j = 1 /\ fr.n = 1
    /\ gl_rendered = {}
    /\ \E q \in DOMAIN NextScene : NextScene[q].op = "opaque" /\ NextScene[q].ball = 2

====
